---- MODULE Spec2Model ----
(***************************************************************************)
(* Model of src/main.rs: a brute-force search over the orderings of 12 or  *)
(* 24 BIP-39 words for the ordering whose derived address is a target      *)
(* Bitcoin address.                                                        *)
(*                                                                         *)
(* Text is modelled as a sequence of characters, each character a string   *)
(* of the module.  "e'" and "E'" are the precomposed letters e and E with   *)
(* acute accent (U+00E9, U+00C9), "'" alone is the combining acute accent  *)
(* (U+0301), which has no case; "zh1", "zs2", "zt2", "ko1", "ja1" stand    *)
(* for caseless CJK characters.                                            *)
(*                                                                         *)
(* The external libraries (bip39, bitcoin, itertools) are modelled by      *)
(* what the program relies on: the word lists are abbreviated, the         *)
(* address parser knows a handful of sample texts, and the outcome of the  *)
(* mnemonic-to-address pipeline for a phrase is a function `oracle` fixed  *)
(* when the run starts.                                                    *)
(***************************************************************************)
EXTENDS Integers, Sequences, FiniteSets, TLC

VARIABLES
    args,            \* the parsed command line (struct Args)
    pc,              \* position in main / detect_language / search_permutations
    target,          \* the network-checked target address
    address_type,    \* AddressType chosen in main
    language,        \* Language chosen in main
    lang_note,       \* what main printed about the language
    lang_i,          \* detect_language: index of the next language to score
    best_language,   \* detect_language: best_language
    best_count,      \* detect_language: best_count
    scored,          \* detect_language: the languages scored so far, in order
    derivation_path, \* search_permutations: the parsed derivation path
    cursor,          \* the permutation iterator: <<p>>, p the next ordering
                     \* of positions, or <<>> when it has none left
    i,               \* search_permutations: orderings taken so far (enumerate index)
    tried,           \* the orderings of positions produced so far, in order
    result,          \* "none", "found", "not_found"
    found_index,     \* the permutation index printed on a match
    error,           \* "none" or the error main returned
    oracle           \* phrase -> outcome of the mnemonic-to-address pipeline

vars == <<args, pc, target, address_type, language, lang_note, lang_i,
          best_language, best_count, scored, derivation_path, cursor, i,
          tried, result, found_index, error, oracle>>

detectVars == <<lang_i, best_language, best_count, scored>>
searchVars == <<derivation_path, cursor, i, tried, result, found_index>>

\* ------------------------------------------------------------------ bounds

\* Largest word count of a direct call of search_permutations.
MaxWords == 3
\* Largest --max-permutations of a direct call of search_permutations.
MaxCap == 7
\* Largest --max-permutations of a whole run of main.
MaxMainCap == 1

\* ------------------------------------------------------- program constants

WordCountShort == 12
WordCountLong == 24

\* --------------------------------------------------------------- characters

AsciiUpper ==
    <<"A","B","C","D","E","F","G","H","I","J","K","L","M",
      "N","O","P","Q","R","S","T","U","V","W","X","Y","Z">>
AsciiLower ==
    <<"a","b","c","d","e","f","g","h","i","j","k","l","m",
      "n","o","p","q","r","s","t","u","v","w","x","y","z">>
NonAsciiUpper == <<"E'">>
NonAsciiLower == <<"e'">>

\* u8::to_ascii_lowercase, lifted to characters: only A-Z change.
ToAsciiLowerChar(c) ==
    IF \E k \in DOMAIN AsciiUpper : AsciiUpper[k] = c
    THEN AsciiLower[CHOOSE k \in DOMAIN AsciiUpper : AsciiUpper[k] = c]
    ELSE c

\* char::to_lowercase (Unicode): accented capitals change too.
ToLowerChar(c) ==
    IF \E k \in DOMAIN NonAsciiUpper : NonAsciiUpper[k] = c
    THEN NonAsciiLower[CHOOSE k \in DOMAIN NonAsciiUpper : NonAsciiUpper[k] = c]
    ELSE ToAsciiLowerChar(c)

\* str::to_lowercase
to_lowercase(s) == [k \in DOMAIN s |-> ToLowerChar(s[k])]

\* A comparison that does not fold case (mutant of eq_ignore_ascii_case).
eq_exact(a, b) == a = b

\* str::eq_ignore_ascii_case
eq_ignore_ascii_case(a, b) ==
    /\ Len(a) = Len(b)
    /\ \A k \in DOMAIN a : ToAsciiLowerChar(a[k]) = ToAsciiLowerChar(b[k])

\* str::starts_with
starts_with(s, prefix) ==
    /\ Len(s) >= Len(prefix)
    /\ \A k \in DOMAIN prefix : s[k] = prefix[k]

\* ---------------------------------------------------------------- languages

\* The array `languages` of detect_language, in its order.
languages ==
    <<"English", "Portuguese", "Spanish", "French", "Italian", "Czech",
      "Korean", "Japanese", "SimplifiedChinese", "TraditionalChinese">>

Languages == {languages[k] : k \in DOMAIN languages}

\* The arms of parse_language, in order: <<tag, Language>>.
LanguageTags ==
    << <<<<"e","n","g","l","i","s","h">>, "English">>,
       <<<<"p","o","r","t","u","g","u","e","s","e">>, "Portuguese">>,
       <<<<"s","p","a","n","i","s","h">>, "Spanish">>,
       <<<<"f","r","e","n","c","h">>, "French">>,
       <<<<"i","t","a","l","i","a","n">>, "Italian">>,
       <<<<"c","z","e","c","h">>, "Czech">>,
       <<<<"k","o","r","e","a","n">>, "Korean">>,
       <<<<"j","a","p","a","n","e","s","e">>, "Japanese">>,
       <<<<"c","h","i","n","e","s","e","-","s","i","m","p","l","i","f","i","e","d">>,
         "SimplifiedChinese">>,
       <<<<"c","h","i","n","e","s","e","-","t","r","a","d","i","t","i","o","n","a","l">>,
         "TraditionalChinese">> >>

\* parse_language: the Language of a tag, or "Err".
parse_language(lang) ==
    LET lower == to_lowercase(lang)
    IN  IF \E k \in DOMAIN LanguageTags : LanguageTags[k][1] = lower
        THEN LanguageTags[CHOOSE k \in DOMAIN LanguageTags : LanguageTags[k][1] = lower][2]
        ELSE "Err"

\* The value of the --language option that main takes to mean "not given".
DefaultLanguageTag == <<"e","n","g","l","i","s","h">>

\* Language::word_list, abbreviated to a few sample entries per list (the
\* real lists have 2048).  The samples keep what detect_language can
\* observe: every entry is lower-case; the lists are stored in decomposed
\* form (NFKD), so an accented letter is its ASCII base letter followed by a
\* combining mark (french "aerer" with an acute accent on the first e); and
\* some entries belong to two lists (here english/french,
\* portuguese/spanish and the two chinese lists).
word_list(lang) ==
    CASE lang = "English"            -> << <<"z","o","o">>, <<"s","u","n">>,
                                        <<"a","m","a","t","e","u","r">> >>
      [] lang = "Portuguese"         -> << <<"s","o","l">>, <<"r","u","a">> >>
      [] lang = "Spanish"            -> << <<"s","o","l">>, <<"o","s","o">> >>
      [] lang = "French"             -> << <<"a","m","a","t","e","u","r">>,
                                        <<"a","e","'","r","e","r">> >>
      [] lang = "Italian"            -> << <<"d","u","e">> >>
      [] lang = "Czech"              -> << <<"l","e","s">> >>
      [] lang = "Korean"             -> << <<"ko1">> >>
      [] lang = "Japanese"           -> << <<"ja1">> >>
      [] lang = "SimplifiedChinese"  -> << <<"zh1">>, <<"zs2">> >>
      [] lang = "TraditionalChinese" -> << <<"zh1">>, <<"zt2">> >>

\* wordlist.iter().any(|w| w.eq_ignore_ascii_case(word))
InWordList(lang, word) ==
    \E k \in DOMAIN word_list(lang) : eq_ignore_ascii_case(word_list(lang)[k], word)

\* The inner loop of detect_language: valid_count of one language.
valid_count(lang, words) ==
    Cardinality({k \in DOMAIN words : InWordList(lang, words[k])})

\* ---------------------------------------------------------------- addresses

\* Address::from_str on the sample texts: base58 texts "1A", "3J" (mainnet),
\* "mz", "2N" (testnet); bech32 texts, accepted in lower or in upper case,
\* with prefix bc1 (mainnet) or tb1 (testnet).  Anything else, such as "10"
\* (0 is no base58 digit), does not parse.  A parsed address is its network
\* and its payload; the payload of a bech32 text does not depend on its case.
Base58Mainnet == { <<"1","A">>, <<"3","J">> }
Base58Testnet == { <<"m","z">>, <<"2","N">> }
Bech32Mainnet == { <<"b","c","1","q">>, <<"B","C","1","Q">> }
Bech32Testnet == { <<"t","b","1","q">> }

ParseAddress(text) ==
    IF text \in Base58Mainnet THEN [ok |-> TRUE, network |-> "bitcoin", payload |-> text]
    ELSE IF text \in Base58Testnet THEN [ok |-> TRUE, network |-> "testnet", payload |-> text]
    ELSE IF text \in Bech32Mainnet
         THEN [ok |-> TRUE, network |-> "bitcoin", payload |-> to_lowercase(text)]
    ELSE IF text \in Bech32Testnet
         THEN [ok |-> TRUE, network |-> "testnet", payload |-> to_lowercase(text)]
    ELSE [ok |-> FALSE, network |-> "none", payload |-> <<>>]

\* Address::require_network(Network::Bitcoin)
RequireNetwork(parsed) == parsed.network = "bitcoin"


\* ------------------------------------------------------------- address type

AddressTypes == {"Bip44", "Bip49", "Bip84"}

\* A u32 derivation index, written as its bit 31 and its low 31 bits.
U32(top, low) == [top |-> top, low |-> low]

\* AddressType::derivation_path: the text m/<purpose>'/0'/0'/0/<index>, as
\* its components.
derivation_path_of(type, index) ==
    CASE type = "Bip44" -> <<"m", "44'", "0'", "0'", "0", index>>
      [] type = "Bip49" -> <<"m", "49'", "0'", "0'", "0", index>>
      [] type = "Bip84" -> <<"m", "84'", "0'", "0'", "0", index>>

\* DerivationPath::from_str: a child number without the hardened marker
\* must be below 2^31.
DerivationPathFromStr(path) ==
    IF path[6].top = 0
    THEN [ok |-> TRUE, path |-> Tail(path)]
    ELSE [ok |-> FALSE, path |-> <<>>]

\* The auto-detection of main, lines 100-113: the AddressType of an address
\* text, or "Err".
AutoDetectAddressType(text) ==
    IF starts_with(text, <<"b","c","1">>) THEN "Bip84"
    ELSE IF starts_with(text, <<"3">>) THEN "Bip49"
    ELSE IF starts_with(text, <<"1">>) THEN "Bip44"
    ELSE "Err"

\* A choice that looks at the prefix before the flags (mutant of
\* ChooseAddressType).
ChooseAddressTypePrefixFirst(a) ==
    IF AutoDetectAddressType(a.target_address) # "Err"
    THEN AutoDetectAddressType(a.target_address)
    ELSE IF a.bip84 THEN "Bip84"
    ELSE IF a.bip49 THEN "Bip49"
    ELSE IF a.bip44 THEN "Bip44"
    ELSE "Err"

\* main, lines 92-114: the explicit flag if one is set, else auto-detection.
ChooseAddressType(a) ==
    IF a.bip84 THEN "Bip84"
    ELSE IF a.bip49 THEN "Bip49"
    ELSE IF a.bip44 THEN "Bip44"
    ELSE AutoDetectAddressType(a.target_address)

\* ------------------------------------------------------------- permutations

Max(S) == CHOOSE x \in S : \A y \in S : y <= x

\* The first ordering of n positions that Itertools::permutations(n) yields.
FirstPerm(n) == [k \in 1..n |-> k]

\* The iterator after it has yielded p: <<q>>, q the ordering after p in the
\* iterator's order (lexicographic in the positions), or <<>> when p is the
\* last one.  The ordering of no positions is the first and the last
\* ordering of no words: permutations(0) yields it once.
NextPerm(p) ==
    LET n == Len(p)
        pivots == {k \in 1..(n - 1) : p[k] < p[k + 1]}
    IN  IF pivots = {} THEN <<>>
        ELSE LET a == Max(pivots)
                 b == Max({k \in (a + 1)..n : p[k] > p[a]})
                 swapped == [p EXCEPT ![a] = p[b], ![b] = p[a]]
             IN  << [k \in 1..n |-> IF k <= a THEN swapped[k]
                                    ELSE swapped[n + a + 1 - k]] >>

\* perm: the words at the positions of an ordering.
Permute(words, p) == [k \in DOMAIN p |-> words[p[k]]]

\* perm.join(" ")
RECURSIVE Join(_)
Join(ws) ==
    IF Len(ws) = 0 THEN <<>>
    ELSE IF Len(ws) = 1 THEN ws[1]
    ELSE ws[1] \o <<" ">> \o Join(Tail(ws))

\* The orderings the iterator in state c yields, at most k of them.
RECURSIVE PermsFrom(_, _)
PermsFrom(c, k) ==
    IF k = 0 \/ c = <<>> THEN {}
    ELSE {c[1]} \cup PermsFrom(NextPerm(c[1]), k - 1)

\* The phrases of the first k orderings of words.
FirstPhrases(words, k) ==
    {Join(Permute(words, p)) : p \in PermsFrom(<<FirstPerm(Len(words))>>, k)}

\* ------------------------------------------------------------- the pipeline

\* The child public keys a phrase can lead to in the model.
PublicKeys == {"key1", "key2"}

\* Outcome of lines 292-305 for one phrase: the mnemonic does not parse
\* ("invalid"), a key derivation returns an error ("key_error"), or the
\* child public key is derived ("ok").
Outcomes ==
    { [status |-> "invalid", key |-> "none"], [status |-> "key_error", key |-> "none"] }
    \cup { [status |-> "ok", key |-> k] : k \in PublicKeys }

\* Lines 308-325: the address of a public key under the address type:
\* Address::p2pkh (a text 1...), Address::p2shwpkh (3...), Address::p2wpkh
\* (bc1...).  Different keys give different addresses.
AddressOf(type, key) ==
    CASE type = "Bip44" -> IF key = "key1" THEN <<"1","A">> ELSE <<"1","B">>
      [] type = "Bip49" -> IF key = "key1" THEN <<"3","J">> ELSE <<"3","K">>
      [] type = "Bip84" -> IF key = "key1" THEN <<"b","c","1","q">>
                                           ELSE <<"b","c","1","p">>

\* ------------------------------------------------------------------- main

\* A check that reports the wrong word count and goes on (mutant of
\* ValidateWordCount).
ValidateWordCountNoReturn ==
    /\ pc = "start"
    /\ IF Len(args.words) # WordCountShort /\ Len(args.words) # WordCountLong
       THEN error' = "word_count"
       ELSE UNCHANGED error
    /\ pc' = "parse_address"
    /\ UNCHANGED <<args, target, address_type, language, lang_note, oracle>>
    /\ UNCHANGED detectVars
    /\ UNCHANGED searchVars

\* main, lines 73-79: the word count must be 12 or 24.
ValidateWordCount ==
    /\ pc = "start"
    /\ IF Len(args.words) # WordCountShort /\ Len(args.words) # WordCountLong
       THEN /\ error' = "word_count"
            /\ pc' = "done"
       ELSE /\ pc' = "parse_address"
            /\ UNCHANGED error
    /\ UNCHANGED <<args, target, address_type, language, lang_note, oracle>>
    /\ UNCHANGED detectVars
    /\ UNCHANGED searchVars

\* main, lines 81-89: parse the target address and require mainnet.
ParseTargetAddress ==
    /\ pc = "parse_address"
    /\ LET parsed == ParseAddress(args.target_address)
       IN  IF ~parsed.ok
           THEN /\ error' = "invalid_address"
                /\ pc' = "done"
                /\ UNCHANGED target
           ELSE IF ~RequireNetwork(parsed)
           THEN /\ error' = "wrong_network"
                /\ pc' = "done"
                /\ UNCHANGED target
           ELSE /\ target' = parsed.payload
                /\ pc' = "address_type"
                /\ UNCHANGED error
    /\ UNCHANGED <<args, address_type, language, lang_note, oracle>>
    /\ UNCHANGED detectVars
    /\ UNCHANGED searchVars

\* main, lines 91-114: the address type, from a flag or from the prefix.
DetermineAddressType ==
    /\ pc = "address_type"
    /\ LET type == ChooseAddressType(args)
       IN  IF type = "Err"
           THEN /\ error' = "ambiguous_scheme"
                /\ pc' = "done"
                /\ UNCHANGED address_type
           ELSE /\ address_type' = type
                /\ pc' = "language"
                /\ UNCHANGED error
    /\ UNCHANGED <<args, target, language, lang_note, oracle>>
    /\ UNCHANGED detectVars
    /\ UNCHANGED searchVars

\* A test of --language that folds case first (mutant of UsesDetection).
UsesDetectionFolded(a) == to_lowercase(a.language) = DefaultLanguageTag

\* main, line 122: args.language == "english"
UsesDetection(a) == a.language = DefaultLanguageTag

\* main, lines 121-138: call detect_language when --language is "english",
\* parse_language otherwise.
ChooseLanguage ==
    /\ pc = "language"
    /\ IF UsesDetection(args)
       THEN /\ pc' = "detect"
            /\ lang_i' = 1
            /\ best_language' = "None"
            /\ best_count' = 0
            /\ scored' = <<>>
            /\ UNCHANGED <<language, lang_note, error>>
       ELSE LET lang == parse_language(args.language)
            IN  /\ IF lang = "Err"
                   THEN /\ error' = "unknown_language"
                        /\ pc' = "done"
                        /\ UNCHANGED <<language, lang_note>>
                   ELSE /\ language' = lang
                        /\ lang_note' = "explicit"
                        /\ pc' = "search_entry"
                        /\ UNCHANGED error
                /\ UNCHANGED detectVars
    /\ UNCHANGED <<args, target, address_type, oracle>>
    /\ UNCHANGED searchVars

\* An update of the best language on ties too (mutant of IsBetter).
IsBetterOrEqual(count, best) == count >= best

\* detect_language, line 244: valid_count > best_count
IsBetter(count, best) == count > best

\* detect_language, lines 230-253: one iteration of the loop over the
\* languages; a language that has every word is returned at once and main
\* (lines 125-128) takes it.
DetectStep ==
    /\ pc = "detect"
    /\ lang_i <= Len(languages)
    /\ LET lang == languages[lang_i]
           count == valid_count(lang, args.words)
       IN  /\ scored' = Append(scored, lang)
           /\ IF IsBetter(count, best_count)
              THEN /\ best_count' = count
                   /\ best_language' = lang
              ELSE UNCHANGED <<best_count, best_language>>
           /\ IF count = Len(args.words)
              THEN /\ language' = lang
                   /\ lang_note' = "auto-detected"
                   /\ pc' = "search_entry"
                   /\ UNCHANGED lang_i
              ELSE /\ lang_i' = lang_i + 1
                   /\ UNCHANGED <<language, lang_note, pc>>
    /\ UNCHANGED <<args, target, address_type, error, oracle>>
    /\ UNCHANGED searchVars

\* A threshold of more than half (mutant of detect_result).
detect_result_strict(count, lang, words) ==
    IF count > Len(words) \div 2 THEN lang ELSE "None"

\* detect_language, lines 255-260: the best language if it has at least
\* len / 2 words, else None.
detect_result(count, lang, words) ==
    IF count >= Len(words) \div 2 THEN lang ELSE "None"

\* The end of detect_language and the match of main, lines 124-133: None
\* becomes English.
DetectFinish ==
    /\ pc = "detect"
    /\ lang_i > Len(languages)
    /\ LET detected == detect_result(best_count, best_language, args.words)
       IN  IF detected # "None"
           THEN /\ language' = detected
                /\ lang_note' = "auto-detected"
           ELSE /\ language' = "English"
                /\ lang_note' = "default"
    /\ pc' = "search_entry"
    /\ UNCHANGED <<args, target, address_type, error, oracle>>
    /\ UNCHANGED detectVars
    /\ UNCHANGED searchVars

\* ------------------------------------------------------ search_permutations

\* search_permutations, lines 271-285: build and parse the derivation path,
\* then set up the iterator permutations(len).take(max).enumerate().
StartSearch ==
    /\ pc = "search_entry"
    /\ LET parsed == DerivationPathFromStr(
                         derivation_path_of(address_type, args.derivation))
       IN  IF ~parsed.ok
           THEN /\ error' = "derivation_path"
                /\ pc' = "done"
                /\ UNCHANGED <<derivation_path, cursor>>
           ELSE /\ derivation_path' = parsed.path
                /\ cursor' = <<FirstPerm(Len(args.words))>>
                /\ pc' = "search"
                /\ UNCHANGED error
    /\ UNCHANGED <<args, target, address_type, language, lang_note, oracle>>
    /\ UNCHANGED detectVars
    /\ UNCHANGED <<i, tried, result, found_index>>

\* permutations(len).take(max_permutations): the iterator has a next item.
IteratorYields ==
    /\ i < args.max_permutations
    /\ cursor # <<>>

\* A loop body that returns an error for an invalid mnemonic (mutant of
\* TrialBody).
TrialBodyInvalidFatal(outcome) ==
    IF outcome.status \in {"invalid", "key_error"}
    THEN /\ error' = "key_derivation"
         /\ pc' = "done"
         /\ UNCHANGED <<result, found_index>>
    ELSE IF AddressOf(address_type, outcome.key) = target
    THEN /\ result' = "found"
         /\ found_index' = i
         /\ pc' = "done"
         /\ UNCHANGED error
    ELSE UNCHANGED <<pc, result, found_index, error>>

\* The loop body, lines 290-340, for the outcome of the pipeline on the
\* phrase: an invalid mnemonic is skipped (continue), an error of a key
\* derivation is returned (the ? operator), a derived address equal to the
\* target ends the search with Ok(true).
TrialBody(outcome) ==
    IF outcome.status = "invalid"
    THEN UNCHANGED <<pc, result, found_index, error>>
    ELSE IF outcome.status = "key_error"
    THEN /\ error' = "key_derivation"
         /\ pc' = "done"
         /\ UNCHANGED <<result, found_index>>
    ELSE IF AddressOf(address_type, outcome.key) = target
    THEN /\ result' = "found"
         /\ found_index' = i
         /\ pc' = "done"
         /\ UNCHANGED error
    ELSE UNCHANGED <<pc, result, found_index, error>>

\* search_permutations, lines 279-341: one iteration of the loop: the
\* iterator yields the next ordering and the body runs on its phrase.
Trial ==
    /\ pc = "search"
    /\ IteratorYields
    /\ LET phrase == Join(Permute(args.words, cursor[1]))
       IN  /\ tried' = Append(tried, cursor[1])
           /\ cursor' = NextPerm(cursor[1])
           /\ i' = i + 1
           /\ TrialBody(oracle[phrase])
    /\ UNCHANGED <<args, target, address_type, language, lang_note, oracle,
                   derivation_path>>
    /\ UNCHANGED detectVars

\* search_permutations, line 343: the iterator is exhausted (every ordering
\* was yielded, or take() has yielded max_permutations of them): Ok(false).
Exhausted ==
    /\ pc = "search"
    /\ ~IteratorYields
    /\ result' = "not_found"
    /\ pc' = "done"
    /\ UNCHANGED <<args, target, address_type, language, lang_note, oracle,
                   derivation_path, cursor, i, tried, found_index, error>>
    /\ UNCHANGED detectVars

\* ------------------------------------------------------------------ inputs

\* clap gives the three flags as booleans; conflicts_with_all (lines 33-41)
\* rejects a command line with two of them.
Flags == {"none", "bip44", "bip49", "bip84"}

MkArgs(t, w, c, l, d, f) ==
    [target_address |-> t, words |-> w, max_permutations |-> c, language |-> l,
     derivation |-> d, bip44 |-> (f = "bip44"), bip49 |-> (f = "bip49"),
     bip84 |-> (f = "bip84")]

AddressTexts ==
    Base58Mainnet \cup Base58Testnet \cup Bech32Mainnet \cup Bech32Testnet
    \cup { <<"1","0">>, <<"x","y">> }

LanguageOptions ==
    { DefaultLanguageTag,
      <<"s","p","a","n","i","s","h">>,
      <<"F","r","e","n","c","h">>,
      <<"E","n","g","l","i","s","h">>,
      <<"k","l","i","n","g","o","n">> }

DerivationIndexes == { U32(0, 0), U32(0, 1), U32(1, 0) }

\* Words of the command line: in one list, in two lists, in none, in upper
\* case, and an accented word typed decomposed (as the list has it) or with
\* precomposed letters.
Zoo == <<"z","o","o">>
ZooUpper == <<"Z","O","O">>
Amateur == <<"a","m","a","t","e","u","r">>
Sol == <<"s","o","l">>
Aerer == <<"a","e","'","r","e","r">>
AererUpper == <<"A","E","'","R","E","R">>
AererPrecomposed == <<"A","E'","R","E","R">>
Zh == <<"zh1">>
Zt == <<"zt2">>
Xx == <<"x","x">>
InputWords ==
    {Zoo, ZooUpper, Amateur, Sol, Aerer, AererUpper, AererPrecomposed, Zh, Zt, Xx}

\* n words: k times x, then y.
Mix(x, y, k, n) == [j \in 1..n |-> IF j <= k THEN x ELSE y]

WordCounts == {WordCountShort, WordCountLong}

\* The words that fill the rest of a word list.
FillerWords == {Xx, Zoo, Amateur, Zt}

LangWordLists ==
    {Mix(x, y, k, n) : x \in InputWords, y \in FillerWords,
                       k \in 0..WordCountLong, n \in WordCounts}

MainWordLists ==
    { Mix(Zoo, Xx, 6, WordCountShort), Mix(Zoo, Amateur, 1, WordCountLong),
      Mix(Zoo, Zoo, 0, WordCountShort - 1), Mix(Zoo, Zoo, 0, WordCountShort + 1),
      Mix(Amateur, Zoo, 0, 0) }

Unset ==
    /\ target = <<>>
    /\ address_type = "unset"
    /\ language = "unset"
    /\ lang_note = "none"
    /\ lang_i = 0
    /\ best_language = "None"
    /\ best_count = 0
    /\ scored = <<>>
    /\ derivation_path = <<>>
    /\ cursor = <<>>
    /\ i = 0
    /\ tried = <<>>
    /\ result = "none"
    /\ found_index = -1
    /\ error = "none"

\* A run of main on a command line of A, the pipeline's outcomes in O.  The
\* run evaluates no phrase beyond the first max_permutations orderings.
InitMain(A, O) ==
    /\ args \in A
    /\ oracle \in [FirstPhrases(args.words, args.max_permutations) -> O]
    /\ pc = "start"
    /\ Unset

Init ==
    InitMain({MkArgs(t, w, c, l, d, f) :
                 t \in AddressTexts, w \in MainWordLists, c \in 0..MaxMainCap,
                 l \in LanguageOptions, d \in {U32(0, 0), U32(1, 0)}, f \in Flags},
             Outcomes)

Next ==
    \/ ValidateWordCount
    \/ ParseTargetAddress
    \/ DetermineAddressType
    \/ ChooseLanguage
    \/ DetectStep
    \/ DetectFinish
    \/ StartSearch
    \/ Trial
    \/ Exhausted

Spec == Init /\ [][Next]_vars

\* Runs of main that differ in the words and in --language.
InitLang ==
    InitMain({MkArgs(<<"b","c","1","q">>, w, MaxMainCap, l, U32(0, 0), "none") :
                 w \in LangWordLists, l \in LanguageOptions},
             {[status |-> "invalid", key |-> "none"]})

SpecLang == InitLang /\ [][Next]_vars

\* Runs of main that differ in the address, the flags and the index.
InitScheme ==
    InitMain({MkArgs(t, w, c, DefaultLanguageTag, d, f) :
                 t \in AddressTexts, c \in 0..MaxMainCap, d \in DerivationIndexes,
                 f \in Flags,
                 w \in {Mix(Zoo, Zoo, 0, WordCountShort), Mix(Zoo, Xx, 6, WordCountShort)}},
             Outcomes)

SpecScheme == InitScheme /\ [][Next]_vars

\* Direct calls of search_permutations on short word sequences, with every
\* pipeline outcome for every phrase.
RECURSIVE Factorial(_)
Factorial(n) == IF n <= 1 THEN 1 ELSE n * Factorial(n - 1)

SearchVocabulary == {Zoo, <<"s","u","n">>}
SearchWordLists == UNION {[1..n -> SearchVocabulary] : n \in 0..MaxWords}
\* An address type and a target address of that type.
SearchCalls == {<<ty, AddressOf(ty, "key1")>> : ty \in AddressTypes}

InitSearch ==
    /\ args \in {MkArgs(<<>>, w, c, DefaultLanguageTag, d, "none") :
                    w \in SearchWordLists, c \in 0..MaxCap,
                    d \in {U32(0, 0), U32(1, 0)}}
    /\ oracle \in [FirstPhrases(args.words, Factorial(Len(args.words))) -> Outcomes]
    /\ pc = "search_entry"
    /\ \E call \in SearchCalls :
           /\ address_type = call[1]
           /\ target = call[2]
    /\ language = "English"
    /\ lang_note = "explicit"
    /\ lang_i = 0
    /\ best_language = "None"
    /\ best_count = 0
    /\ scored = <<>>
    /\ derivation_path = <<>>
    /\ cursor = <<>>
    /\ i = 0
    /\ tried = <<>>
    /\ result = "none"
    /\ found_index = -1
    /\ error = "none"

NextSearch ==
    \/ StartSearch
    \/ Trial
    \/ Exhausted

SpecSearch == InitSearch /\ [][NextSearch]_vars

\* ------------------------------------------------------------------ claims

MinOf(a, b) == IF a <= b THEN a ELSE b

RemoveAt(s, j) == SubSeq(s, 1, j - 1) \o SubSeq(s, j + 1, Len(s))

\* The ordering of index k (from 0) in lexicographic order of the positions,
\* computed from the digits of k in the factorial number system.
RECURSIVE Unrank(_, _)
Unrank(avail, k) ==
    IF Len(avail) = 0 THEN <<>>
    ELSE LET f == Factorial(Len(avail) - 1)
             d == k \div f
         IN  <<avail[d + 1]>> \o Unrank(RemoveAt(avail, d + 1), k % f)

KthOrdering(n, k) == Unrank(FirstPerm(n), k)

PhraseOf(p) == Join(Permute(args.words, p))

\* The number of orderings the iterator can yield in this run.
Considered == MinOf(Factorial(Len(args.words)), args.max_permutations)

\* The ordering of index k is a valid mnemonic whose address is the target.
MatchAt(k) ==
    LET outcome == oracle[PhraseOf(KthOrdering(Len(args.words), k))]
    IN  outcome.status = "ok" /\ AddressOf(address_type, outcome.key) = target

MatchingIndexes == {k \in 0..(Considered - 1) : MatchAt(k)}

Least(S) == CHOOSE x \in S : \A y \in S : x <= y

\* C1: a finished search has visited the orderings in the fixed order and
\* reports found exactly when an ordering of index k < trial cap is a valid
\* mnemonic whose address is the target; the reported index is the least
\* such k and no ordering after it was tried; with no such k the outcome is
\* not-found.
C1_Claim ==
    (pc = "done" /\ error # "derivation_path") =>
        /\ \A k \in DOMAIN tried : tried[k] = KthOrdering(Len(args.words), k - 1)
        /\ (result = "found") <=> (MatchingIndexes # {})
        /\ MatchingIndexes # {} =>
               /\ found_index = Least(MatchingIndexes)
               /\ Len(tried) = Least(MatchingIndexes) + 1
        /\ MatchingIndexes = {} => result = "not_found"

\* C2: the search never produces more than trial_cap orderings, the
\* orderings produced in one run are pairwise different orderings of the
\* positions 1..n, and a finished run in which no ordering matches has
\* produced exactly min(n!, trial_cap) of them.
C2_Claim ==
    /\ Len(tried) = i
    /\ Len(tried) <= args.max_permutations
    /\ \A a \in DOMAIN tried :
           /\ Len(tried[a]) = Len(args.words)
           /\ {tried[a][k] : k \in DOMAIN tried[a]} = 1..Len(args.words)
    /\ \A a \in DOMAIN tried : \A b \in DOMAIN tried : a # b => tried[a] # tried[b]
    /\ (pc = "done" /\ error # "derivation_path" /\ MatchingIndexes = {}) =>
           Len(tried) = Considered

\* Lemma: the orderings produced are never more than trial_cap and pairwise
\* different orderings of the positions; a run that ends not-found has
\* produced exactly min(n!, trial_cap) of them.
ProducedOrderings ==
    /\ Len(tried) = i
    /\ Len(tried) <= args.max_permutations
    /\ \A a \in DOMAIN tried :
           /\ Len(tried[a]) = Len(args.words)
           /\ {tried[a][k] : k \in DOMAIN tried[a]} = 1..Len(args.words)
    /\ \A a \in DOMAIN tried : \A b \in DOMAIN tried : a # b => tried[a] # tried[b]
    /\ result = "not_found" => Len(tried) = Considered

\* C3: a step of the search on an ordering that is no valid mnemonic counts
\* the ordering (one unit of the cap), raises no error, leaves the search
\* running and moves the iterator to the next ordering.
C3_Thm ==
    [][ (pc = "search" /\ i < args.max_permutations /\ cursor # <<>>
            /\ oracle[PhraseOf(cursor[1])].status = "invalid")
        => /\ i' = i + 1
           /\ tried' = Append(tried, cursor[1])
           /\ cursor' = NextPerm(cursor[1])
           /\ error' = "none"
           /\ result' = "none"
           /\ pc' = "search" ]_vars

\* C3 witness: an invalid ordering was tried and the search went on to try
\* a later ordering.
C3_Witness ==
    \E k \in DOMAIN tried :
        /\ k < Len(tried)
        /\ oracle[PhraseOf(tried[k])].status = "invalid"

\* C4: a key derivation failure for one ordering is a skip: once an ordering
\* whose key derivation fails has been tried, the run has no error and goes
\* on, to end found or not-found.
C4_Claim ==
    (\E k \in DOMAIN tried : oracle[PhraseOf(tried[k])].status = "key_error") =>
        /\ error = "none"
        /\ pc = "done" => result \in {"found", "not_found"}

\* Lemma: a search that ends without an error has visited the orderings in
\* the fixed order; found is reported at the least matching index, with no
\* later ordering tried, and not-found only when no ordering below the cap
\* matches.
SearchWithoutErrorIsExact ==
    (pc = "done" /\ error = "none") =>
        /\ \A k \in DOMAIN tried : tried[k] = KthOrdering(Len(args.words), k - 1)
        /\ result = "found" =>
               /\ MatchingIndexes # {}
               /\ found_index = Least(MatchingIndexes)
               /\ Len(tried) = found_index + 1
        /\ result = "not_found" => MatchingIndexes = {}

\* ------------------------------------------------- claims: address scheme

\* The types of the flags set on the command line (at most one).
FlagTypes ==
    {ty \in AddressTypes : \/ ty = "Bip44" /\ args.bip44
                           \/ ty = "Bip49" /\ args.bip49
                           \/ ty = "Bip84" /\ args.bip84}

HasPrefix(text, p) == Len(text) >= Len(p) /\ SubSeq(text, 1, Len(p)) = p

\* The scheme the resolver is to return, "Err" when it is to fail.
ExpectedScheme ==
    IF FlagTypes # {} THEN CHOOSE ty \in FlagTypes : TRUE
    ELSE IF HasPrefix(args.target_address, <<"b","c","1">>) THEN "Bip84"
    ELSE IF HasPrefix(args.target_address, <<"3">>) THEN "Bip49"
    ELSE IF HasPrefix(args.target_address, <<"1">>) THEN "Bip44"
    ELSE "Err"

PurposeOf(ty) ==
    CASE ty = "Bip44" -> "44'" [] ty = "Bip49" -> "49'" [] ty = "Bip84" -> "84'"

\* C5: a set flag decides the scheme whatever the prefix; without a flag the
\* prefixes bc1, 3, 1 give native segwit (purpose 84), wrapped segwit (49),
\* legacy (44); without a flag and with another prefix the resolution fails
\* and no scheme is chosen.
C5_Thm ==
    /\ address_type # "unset" => address_type = ExpectedScheme
    /\ (error = "ambiguous_scheme") <=>
           (ExpectedScheme = "Err" /\ target # <<>> /\ pc # "address_type")
    /\ error = "ambiguous_scheme" => (address_type = "unset" /\ tried = <<>>)
    /\ derivation_path # <<>> =>
           derivation_path =
               <<PurposeOf(ExpectedScheme), "0'", "0'", "0", args.derivation>>

\* C5 witness: --bip44 given with a bc1 address: legacy, purpose 44.
C5_Witness ==
    /\ args.bip44
    /\ HasPrefix(args.target_address, <<"b","c","1">>)
    /\ address_type = "Bip44"
    /\ derivation_path # <<>>
    /\ derivation_path[1] = "44'"

\* --------------------------------------------------- claims: language

FoldAscii(w) == [k \in DOMAIN w |-> ToAsciiLowerChar(w[k])]

\* The upper-case form of a character (Unicode): a-z and the precomposed
\* accented letters have one, combining marks and CJK characters are their
\* own.
ToUpperChar(c) ==
    IF \E k \in DOMAIN AsciiLower : AsciiLower[k] = c
    THEN AsciiUpper[CHOOSE k \in DOMAIN AsciiLower : AsciiLower[k] = c]
    ELSE IF \E k \in DOMAIN NonAsciiLower : NonAsciiLower[k] = c
    THEN NonAsciiUpper[CHOOSE k \in DOMAIN NonAsciiLower : NonAsciiLower[k] = c]
    ELSE c

\* a is the (lower-case) word b with any of its letters in upper case.
SameUpToCase(a, b) ==
    /\ Len(a) = Len(b)
    /\ \A k \in DOMAIN a : a[k] = b[k] \/ a[k] = ToUpperChar(b[k])

\* word is in the list of lang up to the case of its letters.
MemberAnyCase(lang, word) ==
    \E k \in DOMAIN word_list(lang) : SameUpToCase(word, word_list(lang)[k])

\* word is in the list of lang up to the case of its ASCII letters.
MemberAsciiCase(lang, word) ==
    \E k \in DOMAIN word_list(lang) :
        FoldAscii(word_list(lang)[k]) = FoldAscii(word)

AllAnyCase(lang) == \A j \in DOMAIN args.words : MemberAnyCase(lang, args.words[j])
AllAsciiCase(lang) == \A j \in DOMAIN args.words : MemberAsciiCase(lang, args.words[j])

Score(lang) ==
    Cardinality({j \in DOMAIN args.words : MemberAsciiCase(lang, args.words[j])})

BestScore == Max({Score(lang) : lang \in Languages})

\* detect_language was called and main has taken its result.
DetectionDone ==
    /\ args.language = DefaultLanguageTag
    /\ lang_note \in {"auto-detected", "default"}

\* C6: when detection runs (the declared language is the default) and every
\* word is, in any letter case, a word of exactly one list, that list's
\* language is the result, reported as detected and not as the default.
C6_Thm ==
    DetectionDone =>
        \A lang \in Languages :
            (AllAnyCase(lang) /\ \A other \in Languages \ {lang} : ~AllAnyCase(other))
            => (language = lang /\ lang_note = "auto-detected")

\* C6 witness: twelve or more words, each the accented french word in upper
\* case, in no other list: french is detected.
C6_Witness ==
    /\ DetectionDone
    /\ language = "French"
    /\ lang_note = "auto-detected"
    /\ \A j \in DOMAIN args.words : args.words[j] = AererUpper
    /\ AllAnyCase("French")
    /\ \A other \in Languages \ {"French"} : ~AllAnyCase(other)

\* C7: when detection runs and no language has every word, the best-scoring
\* language is the result exactly when its score is at least half the word
\* count; otherwise the result is English, reported as the default, and
\* there is no error.
C7_Thm ==
    (DetectionDone /\ \A lang \in Languages : Score(lang) # Len(args.words)) =>
        /\ LET best == BestScore
           IN  /\ 2 * best >= Len(args.words) =>
                      (lang_note = "auto-detected" /\ Score(language) = best)
               /\ 2 * best < Len(args.words) =>
                      (language = "English" /\ lang_note = "default")
        /\ lang_note = "auto-detected" => 2 * Score(language) >= Len(args.words)
        /\ error = "none"

\* C7 witness: a language other than English with exactly half the words is
\* returned.
C7_Witness ==
    /\ DetectionDone
    /\ \A lang \in Languages : Score(lang) # Len(args.words)
    /\ lang_note = "auto-detected"
    /\ language # "English"
    /\ 2 * Score(language) = Len(args.words)

\* The language a tag names, in any letter case.
NamedLanguages(tag) ==
    {lang \in Languages :
        \E k \in DOMAIN LanguageTags : LanguageTags[k] = <<to_lowercase(tag), lang>>}

\* C8: with a --language other than the text "english" the language is the
\* one the option names and no language is scored, whatever the words are;
\* detection runs only when the option is "english".
C8_Thm ==
    /\ (args.language # <<"e","n","g","l","i","s","h">> /\ language # "unset") =>
           /\ NamedLanguages(args.language) = {language}
           /\ lang_note = "explicit"
           /\ scored = <<>>
    /\ (scored # <<>> \/ pc = "detect") =>
           args.language = <<"e","n","g","l","i","s","h">>

\* C8 witness: --language spanish with words that are all french and in no
\* other list: spanish, and the search has run.
C8_Witness ==
    /\ args.language = <<"s","p","a","n","i","s","h">>
    /\ language = "Spanish"
    /\ AllAsciiCase("French")
    /\ ~AllAsciiCase("Spanish")
    /\ scored = <<>>
    /\ pc = "done"

ClaimedOrder ==
    <<"English", "Portuguese", "Spanish", "French", "Italian", "Czech",
      "Korean", "Japanese", "SimplifiedChinese", "TraditionalChinese">>

PerfectIndexes == {k \in DOMAIN ClaimedOrder : Score(ClaimedOrder[k]) = Len(args.words)}
BestIndexes ==
    LET best == BestScore
    IN  {k \in DOMAIN ClaimedOrder : Score(ClaimedOrder[k]) = best}

\* C10: the languages are scored in the order english ... chinese-traditional;
\* the first language in that order that has every word is returned and no
\* later language is scored; when no language has every word all are scored
\* and a returned language is the earliest of those with the best score.
C10_Thm ==
    /\ scored = SubSeq(ClaimedOrder, 1, Len(scored))
    /\ DetectionDone =>
           IF PerfectIndexes # {}
           THEN /\ language = ClaimedOrder[Least(PerfectIndexes)]
                /\ Len(scored) = Least(PerfectIndexes)
           ELSE /\ scored = ClaimedOrder
                /\ lang_note = "auto-detected" =>
                       language = ClaimedOrder[Least(BestIndexes)]

\* C10 witness: no language has every word, two languages tie on the best
\* score and the earlier one is returned.
C10_Witness ==
    /\ DetectionDone
    /\ PerfectIndexes = {}
    /\ lang_note = "auto-detected"
    /\ \E k \in BestIndexes : k > Least(BestIndexes)
    /\ language = ClaimedOrder[Least(BestIndexes)]

\* ------------------------------------------------ claims: fatal input errors

InputErrors ==
    {"word_count", "invalid_address", "wrong_network", "ambiguous_scheme",
     "unknown_language", "derivation_path"}

\* The command line has none of the fatal input faults.
InputAccepted ==
    /\ Len(args.words) \in {12, 24}
    /\ args.target_address \in Base58Mainnet \cup Bech32Mainnet
    /\ ExpectedScheme # "Err"
    /\ NamedLanguages(args.language) # {}
    /\ args.derivation.top = 0

\* C9: a run that ends with a fatal input error has produced no ordering; a
\* run that produces an ordering had an accepted command line and has its
\* language, scheme and path set; and language, scheme, path and target do
\* not change once the search loop has started.
C9_Thm ==
    /\ [](/\ error \in InputErrors =>
                (pc = "done" /\ tried = <<>> /\ i = 0 /\ result = "none")
          /\ (pc = "done" /\ ~InputAccepted) => error \in InputErrors
          /\ (pc = "search" \/ tried # <<>>) =>
                /\ InputAccepted
                /\ language \in Languages
                /\ address_type \in AddressTypes
                /\ derivation_path # <<>>)
    /\ [][pc = "search" =>
              /\ language' = language
              /\ address_type' = address_type
              /\ derivation_path' = derivation_path
              /\ target' = target]_vars

\* C9 witness: the last of the input checks fails: the derivation path does
\* not parse, after language and scheme were set, and nothing was tried.
C9_Witness ==
    /\ error = "derivation_path"
    /\ pc = "done"
    /\ language \in Languages
    /\ address_type \in AddressTypes
    /\ tried = <<>>

====
